---- MODULE Spec2Model ----
(***************************************************************************)
(* Model of compute_average_image (src/src/python/average_image_stack.py). *)
(* One run of the function is a linear pipeline: validate the input        *)
(* folder, list and filter it, process the sorted files one by one inside  *)
(* a try/except, check the success count, average, create the output       *)
(* directory, save, report.                                                *)
(*                                                                         *)
(* File names are sequences of one-character strings.  A raster is a      *)
(* record [size |-> <<width, height>>, px |-> rows of pixels], the array   *)
(* np.array makes of it is px itself: px[row][col][channel].               *)
(***************************************************************************)
EXTENDS Integers, Sequences, FiniteSets, TLC

\* ------------------------------------------------------------------ bounds

\* Largest number of entries of the input directory.
MaxEntries == 3

\* How far below 0 and beyond 255 * count the sums go that the averaging
\* formula is applied to.
SumExcess == 64

\* ------------------------------------------------------------------ names

\* The characters of the modelled names, in code point order ('.' < upper
\* case < lower case), which is the order Python compares str by.
Alphabet ==
  << ".", "B", "F", "G", "J", "N", "P", "T",
     "a", "b", "c", "e", "f", "g", "i", "j", "m", "n", "p", "t", "v" >>

\* The place of each character in that order.
CodePoint ==
  [c \in { Alphabet[i] : i \in 1..Len(Alphabet) } |->
     CHOOSE i \in 1..Len(Alphabet) : Alphabet[i] = c]

\* ord(c), up to the order
Ord(c) == CodePoint[c]

N_a_png  == << "a", ".", "p", "n", "g" >>
N_B_JPG  == << "B", ".", "J", "P", "G" >>
N_a_jpeg == << "a", ".", "j", "p", "e", "g" >>
N_c_Tiff == << "c", ".", "T", "i", "f", "f" >>
N_b_bmp  == << "b", ".", "b", "m", "p" >>
N_png    == << "p", "n", "g" >>
N_f_gif  == << "f", ".", "g", "i", "f" >>

\* The names whose lower-cased form ends in a supported extension, listed
\* by hand, and the names that do not.
ImageNames == { N_a_png, N_B_JPG, N_a_jpeg, N_c_Tiff, N_b_bmp }
OtherNames == { N_png, N_f_gif }
AllNames == ImageNames \cup OtherNames

\* The sets of names the input directory is drawn from.
NameSets ==
  { { },
    { N_png }, { N_a_png }, { N_f_gif },
    { N_B_JPG, N_a_png }, { N_png, N_f_gif }, { N_c_Tiff, N_f_gif },
    { N_a_jpeg, N_b_bmp },
    { N_B_JPG, N_a_jpeg, N_a_png }, { N_b_bmp, N_c_Tiff, N_png },
    { N_a_png, N_b_bmp, N_c_Tiff },
    { N_B_JPG, N_a_jpeg, N_a_png, N_b_bmp },
    { N_a_png, N_c_Tiff, N_f_gif, N_png } }

\* ------------------------------------------------------------------ files

\* A file's content: its mode, size and samples, and the step of the try
\* block at which processing it raises, if that step is run for it:
\*   "open"    Image.open raises (not an image, a directory, unreadable)
\*   "convert" img.convert raises (truncated data)
\*   "alloc"   np.zeros raises (MemoryError)
\*   "resize"  rgb_img.resize raises
\*   "accum"   np.array(rgb_img, dtype=np.float64) raises (MemoryError)
\*   "none"    no step raises on its own
FailModes == { "none", "open", "convert", "alloc", "resize", "accum" }

F_red     == [mode |-> "RGB", size |-> <<1, 1>>, fail |-> "none",
              px |-> << << <<255, 0, 7>> >> >>]
F_red2    == [mode |-> "RGB", size |-> <<1, 1>>, fail |-> "none",
              px |-> << << <<254, 1, 8>> >> >>]
F_grey    == [mode |-> "L", size |-> <<2, 1>>, fail |-> "none",
              px |-> << << <<10>>, <<21>> >> >>]
F_corrupt == [mode |-> "RGB", size |-> <<1, 1>>, fail |-> "open",
              px |-> << << <<0, 0, 0>> >> >>]
F_trunc   == [mode |-> "RGB", size |-> <<2, 1>>, fail |-> "convert",
              px |-> << << <<1, 2, 3>>, <<4, 5, 6>> >> >>]
F_huge    == [mode |-> "RGB", size |-> <<1, 2>>, fail |-> "alloc",
              px |-> << << <<9, 9, 9>> >>, << <<200, 100, 50>> >> >>]
F_noresz  == [mode |-> "RGB", size |-> <<2, 1>>, fail |-> "resize",
              px |-> << << <<30, 40, 50>>, <<60, 70, 80>> >> >>]
F_noacc   == [mode |-> "RGB", size |-> <<2, 1>>, fail |-> "accum",
              px |-> << << <<255, 255, 255>>, <<0, 0, 0>> >> >>]

\* The files the input directory is drawn from, by a short name.
FileKinds ==
  { "red", "red2", "grey", "corrupt", "trunc", "huge", "noresz", "noacc" }

FileContents ==
  [k \in FileKinds |->
     CASE k = "red" -> F_red [] k = "red2" -> F_red2 [] k = "grey" -> F_grey
       [] k = "corrupt" -> F_corrupt [] k = "trunc" -> F_trunc
       [] k = "huge" -> F_huge [] k = "noresz" -> F_noresz
       [] k = "noacc" -> F_noacc]

\* ------------------------------------------------------------------ paths

\* An output path is the sequence of its components, relative to the
\* working directory; the last one is the file name.  A path of one
\* component is a bare file name.
\* Every component is a sequence of characters.
D_out  == << "o", "u", "t" >>
D_new  == << "n", "e", "w" >>
D_deep == << "d", "e", "e", "p" >>

P_bare   == << << "a", "v", "g", ".", "p", "n", "g" >> >>
P_exists == << D_out, << "a", "v", "g", ".", "J", "P", "G" >> >>
P_deep   == << D_new, D_deep, << "a", "v", "g", ".", "b", "m", "p" >> >>

OutputPaths == { P_bare, P_exists, P_deep }

\* The directories that exist when the run starts.
InitialDirs == { << D_out >> }

NoSize == << >>
NoArray == << >>

VARIABLES
  input_exists,   \* os.path.isdir(input_folder)
  entries,        \* the input directory: name -> the file of that name
  output_path,    \* the output path
  dirs,           \* the directories that exist outside the input directory
  pc,             \* position in compute_average_image
  error,          \* the exception that left compute_average_image, or "none"
  sorted_files,   \* sorted(file_list)
  total_files,    \* len(file_list)
  current,        \* number of files the loop has taken
  sum_array, target_size, count, resize_count, errors,
  added,          \* history: the names added into sum_array, in order
  average_array,  \* the averaged raster, NoArray before it is computed
  written,        \* the files saved: records [path, array, params]
  report          \* the lines of the final report, << >> before it

vars == << input_exists, entries, output_path, dirs, pc, error, sorted_files,
           total_files, current, sum_array, target_size, count, resize_count,
           errors, added, average_array, written, report >>

\* The content of the file `filename` of the input directory.
ContentOf(filename) == FileContents[entries[filename]]

\* ------------------------------------------------------------------ strings

\* str.lower on one character.
Lower(c) ==
  CASE c = "B" -> "b" [] c = "F" -> "f" [] c = "G" -> "g" [] c = "J" -> "j"
    [] c = "N" -> "n" [] c = "P" -> "p" [] c = "T" -> "t" [] OTHER -> c

\* f.lower()
LowerStr(s) == [i \in 1..Len(s) |-> Lower(s[i])]

\* s.endswith(suffix)
EndsWith(s, suffix) ==
  /\ Len(s) >= Len(suffix)
  /\ SubSeq(s, Len(s) - Len(suffix) + 1, Len(s)) = suffix

valid_extensions ==
  << << ".", "p", "n", "g" >>, << ".", "j", "p", "g" >>,
     << ".", "j", "p", "e", "g" >>, << ".", "t", "i", "f", "f" >>,
     << ".", "b", "m", "p" >> >>

\* A filter that compares the name as it is spelled.
HasValidExtensionCaseSensitive(f) ==
  \E i \in 1..Len(valid_extensions) : EndsWith(f, valid_extensions[i])

\* f.lower().endswith(valid_extensions)
HasValidExtension(f) ==
  \E i \in 1..Len(valid_extensions) : EndsWith(LowerStr(f), valid_extensions[i])

\* a < b on str: by code point, a proper prefix first.
RECURSIVE StrLess(_, _)
StrLess(a, b) ==
  IF b = << >> THEN FALSE
  ELSE IF a = << >> THEN TRUE
  ELSE IF Ord(a[1]) # Ord(b[1]) THEN Ord(a[1]) < Ord(b[1])
  ELSE StrLess(Tail(a), Tail(b))

\* One name put at its place in a sorted list.
RECURSIVE Insert(_, _)
Insert(x, s) ==
  IF s = << >> THEN << x >>
  ELSE IF StrLess(x, s[1]) THEN << x >> \o s
  ELSE << s[1] >> \o Insert(x, Tail(s))

\* sorted(file_list)
RECURSIVE SortNames(_)
SortNames(s) == IF s = << >> THEN << >> ELSE Insert(s[1], SortNames(Tail(s)))

\* The orders in which os.listdir can give the names of a set.
RECURSIVE ListingsOf(_)
ListingsOf(S) ==
  IF S = { } THEN { << >> }
  ELSE UNION { { << x >> \o rest : rest \in ListingsOf(S \ { x }) } : x \in S }

\* ------------------------------------------------------------------ rasters

\* img.convert("RGB"): a grey sample becomes three equal samples.
ConvertRGB(c) ==
  [size |-> c.size,
   px |-> [r \in 1..c.size[2] |-> [k \in 1..c.size[1] |->
             IF c.mode = "L"
             THEN << c.px[r][k][1], c.px[r][k][1], c.px[r][k][1] >>
             ELSE c.px[r][k]]]]

\* One pass of the Lanczos resampling along a line of pixels, for lines of
\* one or two pixels: one pixel stretched to two repeats it; two pixels
\* reduced to one have equal weights, and the 8-bit result is rounded half up.
ResampleLine(line, n) ==
  IF Len(line) = n THEN line
  ELSE IF Len(line) = 1 THEN [i \in 1..n |-> line[1]]
  ELSE << [ch \in 1..3 |-> (line[1][ch] + line[2][ch] + 1) \div 2] >>

\* rgb_img.resize(size, Image.Resampling.LANCZOS): the horizontal pass, then
\* the vertical pass.
Resize(img, size) ==
  LET rows == [r \in 1..Len(img.px) |-> ResampleLine(img.px[r], size[1])]
      col(k) == ResampleLine([r \in 1..Len(rows) |-> rows[r][k]], size[2])
  IN [size |-> size,
      px |-> [r \in 1..size[2] |-> [k \in 1..size[1] |-> col(k)[r]]]]

\* np.zeros((*target_size[::-1], 3), dtype=np.float64)
Zeros(size) == [r \in 1..size[2] |-> [k \in 1..size[1] |-> << 0, 0, 0 >>]]

\* arr.shape
Shape(arr) == << Len(arr), Len(arr[1]), Len(arr[1][1]) >>

\* An accumulation that assigns where it should add.
AddArraysOverwriting(a, b) == b

\* sum_array + np.array(rgb_img, dtype=np.float64), shapes being equal.  The
\* sums are integers far below 2^53, which float64 holds exactly.
AddArrays(a, b) ==
  [r \in 1..Len(a) |-> [k \in 1..Len(a[r]) |->
     [ch \in 1..3 |-> a[r][k][ch] + b[r][k][ch]]]]

\* ------------------------------------------------------------------ the loop body

\* The variables the loop body reads and writes, as one record.
LoopState ==
  [sum_array |-> sum_array, target_size |-> target_size, count |-> count,
   resize_count |-> resize_count, errors |-> errors, added |-> added]

InitialLoopState ==
  [sum_array |-> NoArray, target_size |-> NoSize, count |-> 0,
   resize_count |-> 0, errors |-> << >>, added |-> << >>]

\* An except clause that logs the file and counts it too.
SkippedButCounted(st, filename, e) ==
  [st EXCEPT !.errors = Append(@, << filename, e >>), !.count = @ + 1]

\* except Exception as e: errors.append((filename, str(e)))
Skipped(st, filename, e) == [st EXCEPT !.errors = Append(@, << filename, e >>)]

\* One iteration of the loop: the try block on the file `filename` of
\* content c, and the except clause when a step raises.  What a step has
\* assigned before a later step raises stays assigned.
ProcessFile(st, filename, c) ==
  IF c.fail = "open" THEN Skipped(st, filename, "cannot identify image file")
  ELSE IF c.fail = "convert" THEN Skipped(st, filename, "image file is truncated")
  ELSE
    LET rgb_img == ConvertRGB(c)
        first == st.target_size = NoSize
        s1 == IF first THEN [st EXCEPT !.target_size = rgb_img.size] ELSE st
    IN
    IF first /\ c.fail = "alloc"
    THEN Skipped(s1, filename, "Unable to allocate array")
    ELSE
      LET s2 == IF first THEN [s1 EXCEPT !.sum_array = Zeros(s1.target_size)]
                ELSE s1
          differs == rgb_img.size # s2.target_size
      IN
      IF differs /\ c.fail = "resize"
      THEN Skipped(s2, filename, "resize failed")
      ELSE
        LET resized == IF differs THEN Resize(rgb_img, s2.target_size)
                       ELSE rgb_img
            s3 == IF differs THEN [s2 EXCEPT !.resize_count = @ + 1] ELSE s2
        IN
        IF c.fail = "accum"
        THEN Skipped(s3, filename, "Unable to allocate array")
        ELSE IF s3.sum_array = NoArray
        THEN Skipped(s3, filename, "unsupported operand type(s) for +")
        ELSE [s3 EXCEPT !.sum_array = AddArrays(@, resized.px),
                        !.count = @ + 1,
                        !.added = Append(@, filename)]

\* ------------------------------------------------------------------ the average

\* An average without the clip: the truncated quotient wraps into 8 bits.
AverageSampleWrapping(s, n) ==
  LET q == IF s >= 0 THEN s \div n ELSE 0 - ((0 - s) \div n)
  IN q % 256

\* One sample of np.clip(sum_array / count, 0, 255).astype(np.uint8): the
\* quotient is clipped to [0, 255] and then truncated.  With s and n integers
\* below 2^45 the float64 quotient truncates to the integer quotient.
AverageSample(s, n) ==
  IF s <= 0 THEN 0
  ELSE IF s >= 255 * n THEN 255
  ELSE s \div n

ComputeAverage(arr, n) ==
  [r \in 1..Len(arr) |-> [k \in 1..Len(arr[r]) |->
     [ch \in 1..3 |-> AverageSample(arr[r][k][ch], n)]]]

\* ------------------------------------------------------------------ the output path

\* os.path.dirname(output_path): what precedes the last separator, the empty
\* string when there is none.
DirName(p) == SubSeq(p, 1, Len(p) - 1)

\* os.path.splitext(name)[1]: from the last dot on, unless only dots
\* precede it.
SplitExt(name) ==
  LET dots == { i \in 1..Len(name) : name[i] = "." }
      last == CHOOSE i \in dots : \A j \in dots : j <= i
  IN IF dots = { } \/ (\A j \in 1..(last - 1) : name[j] = ".") THEN << >>
     ELSE SubSeq(name, last, Len(name))

\* The directories after os.makedirs(d, exist_ok=True), d not empty.
MakeDirs(d, existing) == existing \cup { SubSeq(d, 1, i) : i \in 1..Len(d) }

\* The keyword arguments of result_img.save for an extension.
SaveOptions(output_ext) ==
  IF output_ext \in { << ".", "j", "p", "g" >>, << ".", "j", "p", "e", "g" >> }
  THEN "quality=100, subsampling=0"
  ELSE IF output_ext = << ".", "p", "n", "g" >> THEN "optimize=True"
  ELSE ""

\* ------------------------------------------------------------------ the run

Init ==
  /\ input_exists \in BOOLEAN
  /\ \E S \in NameSets :
       /\ Cardinality(S) <= MaxEntries
       /\ ~input_exists => S = { }
       /\ entries \in { f \in [S -> FileKinds] :
                          \A n \in S \ ImageNames : f[n] = "corrupt" }
  /\ output_path \in OutputPaths
  /\ dirs = InitialDirs
  /\ pc = "validate"
  /\ error = "none"
  /\ sorted_files = << >>
  /\ total_files = 0
  /\ current = 0
  /\ sum_array = NoArray
  /\ target_size = NoSize
  /\ count = 0
  /\ resize_count = 0
  /\ errors = << >>
  /\ added = << >>
  /\ average_array = NoArray
  /\ written = { }
  /\ report = << >>

\* A validation that creates the output directory before it looks at the
\* input folder.
ValidateCreatingOutputDir ==
  /\ pc = "validate"
  /\ dirs' = MakeDirs(DirName(output_path), dirs)
  /\ \/ /\ ~input_exists
        /\ pc' = "raised"
        /\ error' = "input folder does not exist"
     \/ /\ input_exists
        /\ pc' = "list"
        /\ error' = error
  /\ UNCHANGED << input_exists, entries, output_path, sorted_files,
                  total_files, current, sum_array, target_size, count,
                  resize_count, errors, added, average_array, written, report >>

\* if not os.path.isdir(input_folder): raise ValueError
Validate ==
  /\ pc = "validate"
  /\ \/ /\ ~input_exists
        /\ pc' = "raised"
        /\ error' = "input folder does not exist"
     \/ /\ input_exists
        /\ pc' = "list"
        /\ error' = error
  /\ UNCHANGED << input_exists, entries, output_path, dirs, sorted_files,
                  total_files, current, sum_array, target_size, count,
                  resize_count, errors, added, average_array, written, report >>

\* What the listing of the directory comes to, for each order os.listdir
\* can give the names in: len(file_list) and sorted(file_list).
Listed ==
  { LET file_list == SelectSeq(listing, HasValidExtension)
    IN [total_files |-> Len(file_list), sorted_files |-> SortNames(file_list)] :
    listing \in ListingsOf(DOMAIN entries) }

\* file_list, total_files, the raise on an empty list, and sorted(file_list).
ListFiles ==
  /\ pc = "list"
  /\ \E l \in Listed :
       /\ total_files' = l.total_files
       /\ \/ /\ l.total_files = 0
             /\ pc' = "raised"
             /\ error' = "no supported image files"
             /\ sorted_files' = sorted_files
          \/ /\ l.total_files > 0
             /\ pc' = "loop"
             /\ error' = error
             /\ sorted_files' = l.sorted_files
  /\ UNCHANGED << input_exists, entries, output_path, dirs, current, sum_array,
                  target_size, count, resize_count, errors, added,
                  average_array, written, report >>

\* One iteration of the for loop.
ProcessNext ==
  /\ pc = "loop"
  /\ current < total_files
  /\ LET filename == sorted_files[current + 1]
         st == ProcessFile(LoopState, filename, ContentOf(filename))
     IN /\ sum_array' = st.sum_array
        /\ target_size' = st.target_size
        /\ count' = st.count
        /\ resize_count' = st.resize_count
        /\ errors' = st.errors
        /\ added' = st.added
  /\ current' = current + 1
  /\ UNCHANGED << input_exists, entries, output_path, dirs, pc, error,
                  sorted_files, total_files, average_array, written, report >>

\* if count == 0: raise ValueError
PostCheck ==
  /\ pc = "loop"
  /\ current = total_files
  /\ \/ /\ count = 0
        /\ pc' = "raised"
        /\ error' = "no image loaded"
     \/ /\ count # 0
        /\ pc' = "average"
        /\ error' = error
  /\ UNCHANGED << input_exists, entries, output_path, dirs, sorted_files,
                  total_files, current, sum_array, target_size, count,
                  resize_count, errors, added, average_array, written, report >>

\* average_array = np.clip(sum_array / count, 0, 255).astype(np.uint8)
Average ==
  /\ pc = "average"
  /\ average_array' = ComputeAverage(sum_array, count)
  /\ pc' = "makedirs"
  /\ UNCHANGED << input_exists, entries, output_path, dirs, error, sorted_files,
                  total_files, current, sum_array, target_size, count,
                  resize_count, errors, added, written, report >>

\* os.makedirs(os.path.dirname(output_path), exist_ok=True), which raises
\* FileNotFoundError on the empty string.
MakeOutputDir ==
  /\ pc = "makedirs"
  /\ \/ /\ DirName(output_path) = << >>
        /\ pc' = "raised"
        /\ error' = "FileNotFoundError: ''"
        /\ dirs' = dirs
     \/ /\ DirName(output_path) # << >>
        /\ dirs' = MakeDirs(DirName(output_path), dirs)
        /\ pc' = "save"
        /\ error' = error
  /\ UNCHANGED << input_exists, entries, output_path, sorted_files,
                  total_files, current, sum_array, target_size, count,
                  resize_count, errors, added, average_array, written, report >>

\* result_img.save(output_path, ...) with the options of the extension.
SaveOutput ==
  /\ pc = "save"
  /\ LET output_ext == LowerStr(SplitExt(output_path[Len(output_path)]))
     IN written' = written \cup
          { [path |-> output_path, array |-> average_array,
             options |-> SaveOptions(output_ext)] }
  /\ pc' = "report"
  /\ UNCHANGED << input_exists, entries, output_path, dirs, error, sorted_files,
                  total_files, current, sum_array, target_size, count,
                  resize_count, errors, added, average_array, report >>

\* The final report.
Report ==
  /\ pc = "report"
  /\ report' = << [count |-> count, resize_count |-> resize_count,
                   target_size |-> target_size, errors |-> errors] >>
  /\ pc' = "done"
  /\ UNCHANGED << input_exists, entries, output_path, dirs, error, sorted_files,
                  total_files, current, sum_array, target_size, count,
                  resize_count, errors, added, average_array, written >>

Next ==
  \/ Validate
  \/ ListFiles
  \/ ProcessNext
  \/ PostCheck
  \/ Average
  \/ MakeOutputDir
  \/ SaveOutput
  \/ Report

Spec == Init /\ [][Next]_vars

TypeOK ==
  /\ pc \in { "validate", "list", "loop", "average", "makedirs", "save",
              "report", "done", "raised" }
  /\ count \in 0..MaxEntries
  /\ current \in 0..total_files

\* ------------------------------------------------------------------ helpers of the properties

ErrorNames == { errors[i][1] : i \in DOMAIN errors }
AddedNames == { added[i] : i \in DOMAIN added }
Processed == { sorted_files[i] : i \in 1..current }

\* The entries of the input directory that pass the extension filter, by
\* the hand-written list of names.
Filtered == DOMAIN entries \cap ImageNames

\* The loop has taken every file.
LoopFinished == pc = "loop" /\ current = total_files

\* The run has computed the average.
Averaged == pc \in { "makedirs", "save", "report", "done" }

\* The raster of the file `filename` as it is added: converted to RGB and
\* brought to the size `size`.
Conformed(filename, size) ==
  LET rgb == ConvertRGB(ContentOf(filename))
  IN IF rgb.size = size THEN rgb.px ELSE Resize(rgb, size).px

\* The sum of one sample over the files of a sequence of names.
RECURSIVE SampleSum(_, _, _, _, _)
SampleSum(names, size, r, k, ch) ==
  IF names = << >> THEN 0
  ELSE Conformed(names[1], size)[r][k][ch]
         + SampleSum(Tail(names), size, r, k, ch)

\* The loop run on a sequence of names from a loop state.
RECURSIVE FoldLoop(_, _)
FoldLoop(names, st) ==
  IF names = << >> THEN st
  ELSE FoldLoop(Tail(names), ProcessFile(st, names[1], ContentOf(names[1])))

\* What a run yields from the loop state it ends the loop in.
Outcome(st) ==
  [raster |-> IF st.count > 0 THEN ComputeAverage(st.sum_array, st.count)
              ELSE NoArray,
   count |-> st.count,
   logged |-> { st.errors[i][1] : i \in DOMAIN st.errors }]

\* A file that decodes and converts: it has a pixel size.
Decodes(c) == c.fail \notin { "open", "convert" }

\* ------------------------------------------------------------------ C1

\* C1: every file the loop has taken is either added and counted or in the
\* error log, exactly once and never both; count is the number of rasters
\* added into sum_array, which is the sum of exactly those rasters; at the
\* end of the loop count + len(errors) is the number of filtered files.
C1_CountedOrLogged ==
  /\ \A n \in Processed :
       Cardinality({ i \in DOMAIN errors : errors[i][1] = n })
         + Cardinality({ i \in DOMAIN added : added[i] = n }) = 1
  /\ ErrorNames \cup AddedNames \subseteq Processed
  /\ count = Len(added)
  /\ count > 0 =>
       \A r \in 1..target_size[2] : \A k \in 1..target_size[1] :
         \A ch \in 1..3 :
           sum_array[r][k][ch] = SampleSum(added, target_size, r, k, ch)
  /\ (LoopFinished \/ Averaged) =>
       count + Len(errors) = Cardinality(Filtered)

C1_Witness ==
  /\ LoopFinished
  /\ count >= 2
  /\ Len(errors) >= 1

\* ------------------------------------------------------------------ C2

\* C2: a file that fails is isolated: every file taken so far that raises
\* at no step on its own is counted, and the count, the resize count and
\* the sum are what the loop yields on the taken files without the failed
\* ones.
C2_FailureIsolated ==
  LET taken == SubSeq(sorted_files, 1, current)
      Kept(n) == n \notin ErrorNames
      clean == FoldLoop(SelectSeq(taken, Kept), InitialLoopState)
  IN pc = "loop" =>
       /\ \A n \in Processed : ContentOf(n).fail = "none" => n \in AddedNames
       /\ count = clean.count
       /\ resize_count = clean.resize_count
       /\ count > 0 => sum_array = clean.sum_array

\* ------------------------------------------------------------------ C3

\* C3: whenever the reference size is set, it is the size of the first
\* counted file, and sum_array exists with the shape (height, width, 3).
C3_ReferenceSize ==
  target_size # NoSize =>
    /\ added # << >>
    /\ target_size = ContentOf(added[1]).size
    /\ sum_array # NoArray
    /\ Shape(sum_array) = << target_size[2], target_size[1], 3 >>

\* ------------------------------------------------------------------ C4

E_NoFolder == "input folder does not exist"
E_NoFiles == "no supported image files"
E_NoImages == "no image loaded"

\* C4: the run raises "folder does not exist" exactly when the input folder
\* is no directory, before anything is listed; "no supported files" exactly
\* when no entry has a supported extension, before any file is taken; "no
\* image loaded" exactly when there are filtered files and all of them
\* failed, after all of them were taken; and none of the three once a file
\* is counted.
C4_FatalErrors ==
  /\ pc \notin { "validate" } /\ ~input_exists =>
       pc = "raised" /\ error = E_NoFolder
  /\ pc \notin { "validate", "list" } /\ input_exists /\ Filtered = { } =>
       pc = "raised" /\ error = E_NoFiles
  /\ error = E_NoFolder =>
       ~input_exists /\ total_files = 0 /\ sorted_files = << >> /\ current = 0
  /\ error = E_NoFiles =>
       input_exists /\ Filtered = { } /\ current = 0 /\ errors = << >>
  /\ error = E_NoImages =>
       /\ input_exists
       /\ Filtered # { }
       /\ count = 0
       /\ current = Cardinality(Filtered)
       /\ ErrorNames = Filtered
  /\ pc = "raised" /\ input_exists /\ Filtered # { } /\ count = 0 =>
       error = E_NoImages
  /\ pc \in { "loop", "average" } => error = "none"
  /\ count >= 1 => error \notin { E_NoFolder, E_NoFiles, E_NoImages }

C4_Witness ==
  /\ pc = "raised"
  /\ error = E_NoImages
  /\ total_files >= 2

\* ------------------------------------------------------------------ C5

\* C5: once the average is computed, every output sample is the integer q
\* of 0..255 with q * count <= S < (q + 1) * count, where S is the sum of
\* that sample over the counted files brought to the reference size; and
\* for the count of the run, a sum of any value, below 0 or beyond
\* 255 * count, gives a sample of 0..255 that is 0 below 0 and 255 from
\* 255 * count on.
C5_AverageSamples ==
  Averaged =>
    /\ Shape(average_array) = << target_size[2], target_size[1], 3 >>
    /\ \A r \in 1..target_size[2] : \A k \in 1..target_size[1] :
         \A ch \in 1..3 :
           LET S == SampleSum(added, target_size, r, k, ch)
               q == average_array[r][k][ch]
           IN /\ q \in 0..255
              /\ q * count <= S
              /\ S < (q + 1) * count
    /\ pc = "makedirs" =>
         \A s \in (0 - SumExcess)..(255 * count + SumExcess) :
           /\ AverageSample(s, count) \in 0..255
           /\ s <= 0 => AverageSample(s, count) = 0
           /\ s >= 255 * count => AverageSample(s, count) = 255

C5_Witness ==
  /\ pc = "makedirs"
  /\ count >= 2
  /\ average_array[1][1][1] * count < sum_array[1][1][1]
  /\ resize_count >= 1

\* ------------------------------------------------------------------ C6

\* The filtered files all have the content c, which raises at no step.
CopiesOf(c) ==
  /\ c.fail = "none"
  /\ Filtered # { }
  /\ \A n \in Filtered : ContentOf(n) = c

\* C6: when the filtered files are N >= 1 copies of one valid image, the
\* averaged raster is the RGB conversion of that image, no file was resized
\* and the error log is empty; the raster saved is that raster.
C6_CopiesIdentity ==
  \A c \in { FileContents[k] : k \in FileKinds } :
    CopiesOf(c) /\ Averaged =>
      /\ average_array = ConvertRGB(c).px
      /\ resize_count = 0
      /\ errors = << >>
      /\ count = Cardinality(Filtered)
      /\ \A w \in written : w.array = ConvertRGB(c).px

C6_Witness ==
  /\ pc = "done"
  /\ CopiesOf(F_grey)
  /\ count >= 3
  /\ written # { }

\* ------------------------------------------------------------------ C7

\* Every order of the filtered files yields what the sorted order yielded.
SameInEveryOrder ==
  \A order \in ListingsOf(Filtered) :
    Outcome(FoldLoop(order, InitialLoopState)) = Outcome(LoopState)

EqualSizes ==
  /\ \A n, m \in Filtered :
       Decodes(ContentOf(n)) /\ Decodes(ContentOf(m)) =>
         ContentOf(n).size = ContentOf(m).size
  /\ \A n \in Filtered : ContentOf(n).fail # "alloc"

C8_ResizeCount ==
  pc \in { "report", "done" } =>
    resize_count =
      Cardinality({ n \in AddedNames :
                      ContentOf(n).size # ContentOf(added[1]).size })

\* ------------------------------------------------------------------ C9

\* C9: once a file is counted the run does not raise, whatever the form of
\* the output path, and it ends with one file written at output_path.
C9_OutputWritten ==
  /\ count >= 1 => pc # "raised"
  /\ pc \in { "report", "done" } =>
       /\ Cardinality(written) = 1
       /\ \A w \in written : w.path = output_path
       /\ DirName(output_path) \in dirs

\* ------------------------------------------------------------------ C10

\* The run has left nothing outside the input directory.
Untouched == dirs = InitialDirs /\ written = { }

\* What a step may do to the directories, the files written and the
\* accumulator.
OutputStep ==
  /\ dirs' # dirs =>
       /\ pc = "makedirs"
       /\ written = { }
  /\ written' # written =>
       /\ pc = "save"
       /\ written = { }
  /\ dirs' # dirs \/ written' # written =>
       /\ current = Cardinality(Filtered)
       /\ count >= 1
       /\ average_array # NoArray
  /\ average_array # NoArray =>
       /\ sum_array' = sum_array
       /\ average_array' = average_array

\* C10: a run that raised one of the three input-side errors has created
\* no directory and written no file; a directory is created or a file is
\* written only after the loop has taken every filtered file, with
\* count >= 1, the directories in the step that follows the average and the
\* file, once, in the step after it; and sum_array does not change once the
\* average is computed.
C10_OutputOnlyAtEnd ==
  /\ [](error \in { E_NoFolder, E_NoFiles, E_NoImages } => Untouched)
  /\ [](pc \in { "validate", "list", "loop", "average", "makedirs" } =>
          Untouched)
  /\ [](Cardinality(written) <= 1)
  /\ [][OutputStep]_vars

C10_Witness ==
  /\ pc = "done"
  /\ dirs # InitialDirs
  /\ written # { }
  /\ Len(errors) >= 1

====
